---- MODULE Spec2Model ----
(***************************************************************************)
(* Model of the audionoise terminal control panel (src/src/main.rs):       *)
(* the effect/parameter selection state, the parameter store with its      *)
(* f32 arithmetic, and the subprocess orchestrator (transcode, convert,    *)
(* playback, stop) driven by the keyboard event loop.                      *)
(*                                                                         *)
(* f32 values are represented exactly as integers counting units of 2^-28: *)
(* every value the program can hold in a pot lies in [0, 1.05) and is a    *)
(* multiple of 2^-28, and 1.05 * 2^28 < 2^31.                              *)
(*                                                                         *)
(* Every keyboard handler runs to completion inside one dispatch of the    *)
(* loop (main.rs:261-289), so each handler is one action.  The filesystem  *)
(* and the external tools are the outside world: what a handler finds      *)
(* there is an input of the handler, recorded in the observation `last`.   *)
(* The files may change freely between two commands; within one handler    *)
(* they are read as one snapshot.                                          *)
(***************************************************************************)
EXTENDS Integers, Sequences, FiniteSets, TLC

VARIABLES
    effect_idx,   \* App.effect_idx
    pot_idx,      \* App.pot_idx
    pot_values,   \* App.pot_values : effect -> pot -> f32 (units of 2^-28)
    status,       \* App.status
    status_ok,    \* App.status_ok
    list_state,   \* App.list_state (selected row)
    player,       \* App.player : None or the pid of the tracked ffplay child
    mode,         \* position of main: "running" (top of the loop), "processing" (inside
                  \*   process_and_play), "quit", "error"
    procs,        \* every ffplay child spawned so far: pid -> "running" | "killed"
    last,         \* observation: the last dispatched command, what it found, what it ran
    potObs,       \* observation: the selected pot before the last write to the store,
                  \*   and the consecutive increase_pot calls since it was 0.0
    navObs        \* observation: the effect index and pot cursor before the last
                  \*   selection key, and the consecutive next_effect calls and
                  \*   where they started

vars == <<effect_idx, pot_idx, pot_values, status, status_ok, list_state,
          player, mode, procs, last, potObs, navObs>>

appVars == <<effect_idx, pot_idx, pot_values, status, status_ok, list_state, player>>

-----------------------------------------------------------------------------
(* Bounds *)

MaxSpawn == 2       \* ffplay children spawned in one run of the program

-----------------------------------------------------------------------------
(* f32 arithmetic on [0, 1.05), in units of 2^-28 *)

One == 268435456        \* 1.0f32
Step == 13421773        \* 0.05f32 = 0.0500000007450580596923828125
NumPots == 4
None == 0               \* Option::None for App.player

\* Spacing of f32 values around s (24-bit significand).
Ulp(s) ==
    IF s < 16777216 THEN 1
    ELSE IF s < 33554432 THEN 2
    ELSE IF s < 67108864 THEN 4
    ELSE IF s < 134217728 THEN 8
    ELSE IF s < 268435456 THEN 16
    ELSE 32

\* Faulty variant: rounding toward zero instead of to nearest.
F32Round_toward_zero(s) == (s \div Ulp(s)) * Ulp(s)

\* IEEE-754 round to nearest, ties to even, of the exact value s.
F32Round(s) ==
    LET u == Ulp(s)
        q == s \div u
        r == s % u
    IN  IF 2 * r < u THEN q * u
        ELSE IF 2 * r > u THEN (q + 1) * u
        ELSE IF q % 2 = 0 THEN q * u
        ELSE (q + 1) * u

\* Faulty variant: the sum is stored without .min(1.0).
IncValue_no_min(v) == F32Round(v + Step)

\* (v + 0.05).min(1.0)
IncValue(v) ==
    LET s == F32Round(v + Step)
    IN  IF s < One THEN s ELSE One

\* (v - 0.05).max(0.0)
DecValue(v) ==
    IF v <= Step THEN 0 ELSE F32Round(v - Step)

\* Faulty variant: the third decimal is cut off instead of rounded.
Fmt2_truncate(v) ==
    LET a == v \div 16384
        b == v % 16384
        t == b * 100
        u == a * 100 + (t \div 16384)
    IN  u \div 16384

\* format!("{:.2}", v): the decimal value of v rounded to two decimals
\* (ties to even), as a count of hundredths; 30 prints as "0.30".
Fmt2(v) ==
    LET a == v \div 16384
        b == v % 16384
        t == b * 100
        u == a * 100 + (t \div 16384)
        q == u \div 16384
        rem == (u % 16384) * 16384 + (t % 16384)
    IN  IF rem < 134217728 THEN q
        ELSE IF rem > 134217728 THEN q + 1
        ELSE IF q % 2 = 0 THEN q
        ELSE q + 1

-----------------------------------------------------------------------------
(* The effect catalog *)

Pots4(a, b, c, d) == [i \in 0..(NumPots - 1) |->
                        IF i = 0 THEN a ELSE IF i = 1 THEN b ELSE IF i = 2 THEN c ELSE d]

EFFECTS ==
    [i \in 0..5 |->
        IF i = 0 THEN [name |-> "flanger", defaults |-> Pots4(161061280, 161061280, 161061280, 161061280)]
        ELSE IF i = 1 THEN [name |-> "echo", defaults |-> Pots4(80530640, 80530640, 80530640, 80530640)]
        ELSE IF i = 2 THEN [name |-> "fm", defaults |-> Pots4(67108864, 67108864, 134217728, 134217728)]
        ELSE IF i = 3 THEN [name |-> "am", defaults |-> Pots4(134217728, 134217728, 134217728, 134217728)]
        ELSE IF i = 4 THEN [name |-> "phaser", defaults |-> Pots4(80530640, 80530640, 134217728, 134217728)]
        ELSE [name |-> "discont", defaults |-> Pots4(214748368, 26843546, 53687092, 53687092)]]

EffectsLen == Cardinality(DOMAIN EFFECTS)

DefaultPots == [e \in DOMAIN EFFECTS |-> EFFECTS[e].defaults]

-----------------------------------------------------------------------------
(* The outside world: files and tools *)

\* Which of the six files the program looks for exist.
FsStates == [convP : BOOLEAN, convC : BOOLEAN, rawP : BOOLEAN, rawC : BOOLEAN,
             mp3P : BOOLEAN, mp3C : BOOLEAN]

NoFs == [convP |-> FALSE, convC |-> FALSE, rawP |-> FALSE, rawC |-> FALSE,
         mp3P |-> FALSE, mp3C |-> FALSE]

\* Command::status(): the tool exited 0, exited non-zero, or could not be launched.
ToolResults == {"ok", "nonzero", "launchfail"}

\* Child::kill(): the request went through, or reported an error (possible
\* only when the child is already gone; the error is discarded).
KillResults == {"ok", "err"}

Ev(tool, arg, res) == [tool |-> tool, arg |-> arg, res |-> res]

Msg(text) == [text |-> text, eff |-> "", vals |-> <<>>]
MsgEff(text, e) == [text |-> text, eff |-> EFFECTS[e].name, vals |-> <<>>]

\* What the last dispatched command was, the files it found, the tools it ran
\* and the files it opened (in order), the handle that was tracked when it started, and (again) whether
\* the command dispatched just before it was a process_and_play whose
\* conversion exited 0.
Obs(cmd, f, trace, before, again) ==
    [cmd |-> cmd, fs |-> f, trace |-> trace, before |-> before, again |-> again]

HasEv(tr, tool, res) == \E i \in DOMAIN tr : tr[i].tool = tool /\ tr[i].res = res
Ran(tr, tool) == \E i \in DOMAIN tr : tr[i].tool = tool

\* o is a process_and_play whose conversion exited 0
PlayedOk(o) == o.cmd = "process_and_play" /\ HasEv(o.trace, "convert", "ok")
\* o is a process_and_play whose conversion exited non-zero or did not launch
ConvertFailed(o) ==
    o.cmd = "process_and_play" /\ Ran(o.trace, "convert") /\ ~HasEv(o.trace, "convert", "ok")

-----------------------------------------------------------------------------
(* App::new and App::check_environment *)

check_environment(f) ==
    IF ~f.convP /\ ~f.convC
    THEN [status |-> Msg("Warning: 'convert' not found. Run 'make convert' first."), ok |-> FALSE]
    ELSE IF ~f.rawP /\ ~f.rawC
    THEN [status |-> Msg("No input.raw found - will try to convert MP3"), ok |-> TRUE]
    ELSE [status |-> Msg("Ready - press 'p' to process, 'q' to quit"), ok |-> TRUE]

Init ==
    \E f \in FsStates :
        /\ effect_idx = 0
        /\ pot_idx = 0
        /\ pot_values = DefaultPots
        /\ status = check_environment(f).status
        /\ status_ok = check_environment(f).ok
        /\ list_state = 0
        /\ player = None
        /\ mode = "running"
        /\ procs = <<>>
        /\ last = Obs("new", f, <<>>, None, FALSE)
        /\ potObs = [from |-> -1, run |-> -1]
        /\ navObs = [from |-> -1, origin |-> -1, n |-> 0, cursor |-> -1]

-----------------------------------------------------------------------------
(* Selection and parameter store *)

\* Faulty variant: the effect index wraps like the pot cursor.
next_effect_mod4 ==
    /\ mode = "running"
    /\ effect_idx' = (effect_idx + 1) % 4
    /\ list_state' = effect_idx'
    /\ pot_idx' = 0
    /\ last' = Obs("next_effect", NoFs, <<>>, player, FALSE)
    /\ UNCHANGED <<pot_values, status, status_ok, player, mode, procs>>

next_effect ==
    /\ mode = "running"
    /\ effect_idx' = (effect_idx + 1) % EffectsLen
    /\ list_state' = effect_idx'
    /\ pot_idx' = 0
    /\ last' = Obs("next_effect", NoFs, <<>>, player, FALSE)
    /\ UNCHANGED <<pot_values, status, status_ok, player, mode, procs>>

\* Faulty variant: no branch on 0, the index is decremented below the catalog.
prev_effect_no_wrap ==
    /\ mode = "running"
    /\ effect_idx' = effect_idx - 1
    /\ list_state' = effect_idx'
    /\ pot_idx' = 0
    /\ last' = Obs("prev_effect", NoFs, <<>>, player, FALSE)
    /\ UNCHANGED <<pot_values, status, status_ok, player, mode, procs>>

\* Faulty variant: the effect switch keeps the pot cursor.
prev_effect_keep_cursor ==
    /\ mode = "running"
    /\ effect_idx' = IF effect_idx = 0 THEN EffectsLen - 1 ELSE effect_idx - 1
    /\ list_state' = effect_idx'
    /\ last' = Obs("prev_effect", NoFs, <<>>, player, FALSE)
    /\ UNCHANGED <<pot_idx, pot_values, status, status_ok, player, mode, procs>>

prev_effect ==
    /\ mode = "running"
    /\ effect_idx' = IF effect_idx = 0 THEN EffectsLen - 1 ELSE effect_idx - 1
    /\ list_state' = effect_idx'
    /\ pot_idx' = 0
    /\ last' = Obs("prev_effect", NoFs, <<>>, player, FALSE)
    /\ UNCHANGED <<pot_values, status, status_ok, player, mode, procs>>

next_pot ==
    /\ mode = "running"
    /\ pot_idx' = (pot_idx + 1) % 4
    /\ last' = Obs("next_pot", NoFs, <<>>, player, FALSE)
    /\ UNCHANGED <<effect_idx, pot_values, status, status_ok, list_state, player, mode, procs>>

\* Faulty variant: the selected pot is raised in every effect.
increase_pot_all_effects ==
    /\ mode = "running"
    /\ pot_values' = [e \in DOMAIN pot_values |-> [pot_values[e] EXCEPT ![pot_idx] = IncValue(@)]]
    /\ last' = Obs("increase_pot", NoFs, <<>>, player, FALSE)
    /\ UNCHANGED <<effect_idx, pot_idx, status, status_ok, list_state, player, mode, procs>>

increase_pot ==
    /\ mode = "running"
    /\ pot_values' = [pot_values EXCEPT ![effect_idx][pot_idx] = IncValue(@)]
    /\ last' = Obs("increase_pot", NoFs, <<>>, player, FALSE)
    /\ UNCHANGED <<effect_idx, pot_idx, status, status_ok, list_state, player, mode, procs>>

decrease_pot ==
    /\ mode = "running"
    /\ pot_values' = [pot_values EXCEPT ![effect_idx][pot_idx] = DecValue(@)]
    /\ last' = Obs("decrease_pot", NoFs, <<>>, player, FALSE)
    /\ UNCHANGED <<effect_idx, pot_idx, status, status_ok, list_state, player, mode, procs>>

\* Faulty variant: every effect is reset, not only the selected one.
reset_pots_all ==
    /\ mode = "running"
    /\ pot_values' = DefaultPots
    /\ status' = MsgEff("Reset {} to defaults", effect_idx)
    /\ status_ok' = TRUE
    /\ last' = Obs("reset_pots", NoFs, <<>>, player, FALSE)
    /\ UNCHANGED <<effect_idx, pot_idx, list_state, player, mode, procs>>

reset_pots ==
    /\ mode = "running"
    /\ pot_values' = [pot_values EXCEPT ![effect_idx] = EFFECTS[effect_idx].defaults]
    /\ status' = MsgEff("Reset {} to defaults", effect_idx)
    /\ status_ok' = TRUE
    /\ last' = Obs("reset_pots", NoFs, <<>>, player, FALSE)
    /\ UNCHANGED <<effect_idx, pot_idx, list_state, player, mode, procs>>

-----------------------------------------------------------------------------
(* Process orchestrator *)

\* Faulty variant: the handle is forgotten without a kill request.
stop_audio_forget(pl, pr, k) ==
    [player |-> None, procs |-> pr, trace |-> <<>>]

\* Faulty variant: a failed kill request is propagated and the handle is kept.
stop_audio_keep_on_err(pl, pr, k) ==
    [player |-> IF pl # None /\ k = "err" THEN pl ELSE None,
     procs |-> IF pl # None /\ k = "ok" THEN [pr EXCEPT ![pl] = "killed"] ELSE pr,
     trace |-> IF pl # None THEN <<Ev("kill", <<pl>>, k)>> ELSE <<>>]

\* App::stop_audio: request termination of the tracked child if there is one
\* (the result k of the request is discarded), then forget it.
stop_audio(pl, pr, k) ==
    [player |-> None,
     procs |-> IF pl # None THEN [pr EXCEPT ![pl] = "killed"] ELSE pr,
     trace |-> IF pl # None THEN <<Ev("kill", <<pl>>, k)>> ELSE <<>>]

\* Path resolution at the top of process_and_play: all three paths follow
\* the location of the executable.
ConvertPath(f) == IF f.convP THEN "../convert" ELSE "./convert"
InputPath(f) == IF f.convP THEN "../input.raw" ELSE "./input.raw"
OutputPath(f) == IF f.convP THEN "../output.raw" ELSE "./output.raw"

InputExists(f) == IF f.convP THEN f.rawP ELSE f.rawC
ConvertExists(f) == IF f.convP THEN f.convP ELSE f.convC

Mp3Path(f) ==
    IF f.mp3P THEN "../BassForLinus.mp3"
    ELSE IF f.mp3C THEN "./BassForLinus.mp3"
    ELSE ""

\* convert <name> <p0> <p1> <p2> <p3>, each pot formatted with {:.2}
ConvertArgs(f, e, pots) ==
    <<ConvertPath(f), EFFECTS[e].name, Fmt2(pots[0]), Fmt2(pots[1]), Fmt2(pots[2]), Fmt2(pots[3])>>

PlayingMsg(e, pots) ==
    [text |-> "Playing: {} [{:.2}, {:.2}, {:.2}, {:.2}]",
     eff |-> EFFECTS[e].name,
     vals |-> <<Fmt2(pots[0]), Fmt2(pots[1]), Fmt2(pots[2]), Fmt2(pots[3])>>]

PRun(go, trace, st) == [go |-> go, trace |-> trace, status |-> st]

\* Faulty variant: the exit status of ffmpeg is not looked at.
TranscodeRuns_ignore_exit(f) ==
    IF InputExists(f) THEN {PRun(TRUE, <<>>, Msg(""))}
    ELSE IF Mp3Path(f) = ""
    THEN {PRun(FALSE, <<>>, Msg("Error: No input.raw or .mp3 file found"))}
    ELSE {PRun(TRUE, <<Ev("ffmpeg", <<Mp3Path(f), InputPath(f)>>, r)>>,
               Msg("Error: Failed to convert MP3")) : r \in ToolResults}

\* The transcode step: nothing to do when the raw input is there; give up
\* when no mp3 is found; otherwise run ffmpeg and go on only if it exits 0.
TranscodeRuns(f) ==
    IF InputExists(f) THEN {PRun(TRUE, <<>>, Msg(""))}
    ELSE IF Mp3Path(f) = ""
    THEN {PRun(FALSE, <<>>, Msg("Error: No input.raw or .mp3 file found"))}
    ELSE {PRun(r = "ok", <<Ev("ffmpeg", <<Mp3Path(f), InputPath(f)>>, r)>>,
               Msg("Error: Failed to convert MP3")) : r \in ToolResults}

\* Faulty variant: any exit status of convert is taken for success (Ok(_) without
\* the status.success() guard).
ConvertRuns_any_exit(f, e, pots, t) ==
    IF ~ConvertExists(f)
    THEN {PRun(FALSE, t.trace, Msg("Error: 'convert' not found - run 'make convert'"))}
    ELSE {PRun(FALSE, t.trace \o <<Ev("open", <<InputPath(f)>>, "err")>>,
               Msg("Error opening input: {}")),
          PRun(FALSE, t.trace \o <<Ev("open", <<InputPath(f)>>, "ok"),
                                   Ev("create", <<OutputPath(f)>>, "err")>>,
               Msg("Error creating output: {}"))}
         \cup
         {PRun(r # "launchfail",
               t.trace \o <<Ev("open", <<InputPath(f)>>, "ok"),
                            Ev("create", <<OutputPath(f)>>, "ok"),
                            Ev("convert", ConvertArgs(f, e, pots), r)>>,
               Msg("Error: Processing failed")) : r \in ToolResults}

\* The executable check, File::open, File::create and the convert run that
\* follow a transcode step t that went through.
ConvertRuns(f, e, pots, t) ==
    IF ~ConvertExists(f)
    THEN {PRun(FALSE, t.trace, Msg("Error: 'convert' not found - run 'make convert'"))}
    ELSE {PRun(FALSE, t.trace \o <<Ev("open", <<InputPath(f)>>, "err")>>,
               Msg("Error opening input: {}")),
          PRun(FALSE, t.trace \o <<Ev("open", <<InputPath(f)>>, "ok"),
                                   Ev("create", <<OutputPath(f)>>, "err")>>,
               Msg("Error creating output: {}"))}
         \cup
         {PRun(r = "ok",
               t.trace \o <<Ev("open", <<InputPath(f)>>, "ok"),
                            Ev("create", <<OutputPath(f)>>, "ok"),
                            Ev("convert", ConvertArgs(f, e, pots), r)>>,
               Msg("Error: Processing failed")) : r \in ToolResults}

\* Every way the synchronous part of process_and_play can go, given the
\* files f: a run with go = TRUE reached the success arm of the match.
Runs(f, e, pots) ==
    LET ts == TranscodeRuns(f)
    IN  {t \in ts : ~t.go} \cup
        UNION {ConvertRuns(f, e, pots, t) : t \in {x \in ts : x.go}}

\* Faulty variant: the previous playback is stopped only once the new child
\* has been spawned; a failed launch leaves the old handle in place.
PlayArm_stop_after_spawn(pl, pr, k, sp, out) ==
    LET st == stop_audio(pl, pr, k)
    IN  [player |-> IF sp THEN Len(st.procs) + 1 ELSE pl,
         procs |-> IF sp THEN Append(st.procs, "running") ELSE pr,
         trace |-> IF sp THEN st.trace \o <<Ev("ffplay", <<out>>, "ok")>>
                   ELSE <<Ev("ffplay", <<out>>, "launchfail")>>]

\* Faulty variant: the new child overwrites the handle without stop_audio.
PlayArm_no_stop(pl, pr, k, sp, out) ==
    [player |-> IF sp THEN Len(pr) + 1 ELSE pl,
     procs |-> IF sp THEN Append(pr, "running") ELSE pr,
     trace |-> <<Ev("ffplay", <<out>>, IF sp THEN "ok" ELSE "launchfail")>>]

\* The success arm: stop_audio, then spawn ffplay (sp: the spawn succeeded)
\* and keep what spawn().ok() gives.
PlayArm(pl, pr, k, sp, out) ==
    LET st == stop_audio(pl, pr, k)
    IN  [player |-> IF sp THEN Len(st.procs) + 1 ELSE None,
         procs |-> IF sp THEN Append(st.procs, "running") ELSE st.procs,
         trace |-> st.trace \o <<Ev("ffplay", <<out>>, IF sp THEN "ok" ELSE "launchfail")>>]

\* Faulty variant: the current playback is stopped on the failing exits too.
pp_rest_stop_on_failure(F) ==
    /\ \E f \in F :
       \E run \in Runs(f, effect_idx, pot_values[effect_idx]) :
          IF run.go
          THEN \E k \in KillResults, sp \in BOOLEAN :
                 /\ player = None => k = "ok"
                 /\ sp => Len(procs) < MaxSpawn
                 /\ LET arm == PlayArm(player, procs, k, sp, OutputPath(f))
                    IN  /\ player' = arm.player
                        /\ procs' = arm.procs
                        /\ last' = Obs("process_and_play", f, run.trace \o arm.trace, player, PlayedOk(last))
                 /\ status' = PlayingMsg(effect_idx, pot_values[effect_idx])
                 /\ status_ok' = TRUE
          ELSE /\ status' = run.status
               /\ status_ok' = FALSE
               /\ LET st == stop_audio(player, procs, "ok")
                  IN  /\ player' = st.player
                      /\ procs' = st.procs
                      /\ last' = Obs("process_and_play", f, run.trace \o st.trace, player, PlayedOk(last))
    /\ UNCHANGED <<effect_idx, pot_idx, pot_values, list_state>>

\* process_and_play from the path resolution on (lines 166-248), with the
\* files drawn from F.
pp_rest(F) ==
    /\ \E f \in F :
       \E run \in Runs(f, effect_idx, pot_values[effect_idx]) :
          IF run.go
          THEN \E k \in KillResults, sp \in BOOLEAN :
                 /\ player = None => k = "ok"
                 /\ sp => Len(procs) < MaxSpawn
                 /\ LET arm == PlayArm(player, procs, k, sp, OutputPath(f))
                    IN  /\ player' = arm.player
                        /\ procs' = arm.procs
                        /\ last' = Obs("process_and_play", f, run.trace \o arm.trace, player, PlayedOk(last))
                 /\ status' = PlayingMsg(effect_idx, pot_values[effect_idx])
                 /\ status_ok' = TRUE
          ELSE /\ status' = run.status
               /\ status_ok' = FALSE
               /\ last' = Obs("process_and_play", f, run.trace, player, PlayedOk(last))
               /\ UNCHANGED <<player, procs>>
    /\ UNCHANGED <<effect_idx, pot_idx, pot_values, list_state>>

\* Faulty variant: a failed call is propagated out of main like a terminal error.
process_and_play_fatal ==
    /\ mode = "running"
    /\ pp_rest(FsStates)
    /\ mode' = IF status_ok' THEN "running" ELSE "error"

\* main, key 'p': the whole call.  The 'Processing' status of line 163 is
\* overwritten before the call returns (pp_begin and pp_end take the call
\* in two steps).
process_and_play ==
    /\ mode = "running"
    /\ pp_rest(FsStates)
    /\ UNCHANGED mode

\* process_and_play in the environments of F only.
process_and_play_in(F) ==
    /\ mode = "running"
    /\ pp_rest(F)
    /\ UNCHANGED mode

\* The first statement of process_and_play (line 163): the in-progress
\* status is stored; the call is now inside the key dispatch.
pp_begin ==
    /\ mode = "running"
    /\ mode' = "processing"
    /\ status' = MsgEff("Processing {}...", effect_idx)
    /\ status_ok' = TRUE
    /\ last' = Obs("pp_begin", NoFs, <<>>, player, FALSE)
    /\ UNCHANGED <<effect_idx, pot_idx, pot_values, list_state, player, procs>>

\* Faulty variant: the failing exits return without storing their status.
pp_end_silent_failure ==
    /\ mode = "processing"
    /\ \/ /\ pp_rest(FsStates)
          /\ status_ok'
       \/ /\ \E f \in FsStates : \E run \in Runs(f, effect_idx, pot_values[effect_idx]) :
               /\ ~run.go
               /\ last' = Obs("process_and_play", f, run.trace, player, FALSE)
          /\ UNCHANGED <<effect_idx, pot_idx, pot_values, list_state, player, procs,
                         status, status_ok>>
    /\ mode' = "running"

\* The rest of the call; control is back at the top of the loop.
pp_end ==
    /\ mode = "processing"
    /\ pp_rest(FsStates)
    /\ mode' = "running"

\* main, key 's': stop_audio, then the status is overwritten.
stop_key ==
    /\ mode = "running"
    /\ \E k \in KillResults :
         /\ player = None => k = "ok"
         /\ LET st == stop_audio(player, procs, k)
            IN  /\ player' = st.player
                /\ procs' = st.procs
                /\ last' = Obs("stop", NoFs, st.trace, player, FALSE)
    /\ status' = Msg("Stopped playback")
    /\ status_ok' = TRUE
    /\ UNCHANGED <<effect_idx, pot_idx, pot_values, list_state, mode>>

\* main, key 'q': stop_audio, then break out of the loop.
quit_key ==
    /\ mode = "running"
    /\ \E k \in KillResults :
         /\ player = None => k = "ok"
         /\ LET st == stop_audio(player, procs, k)
            IN  /\ player' = st.player
                /\ procs' = st.procs
                /\ last' = Obs("quit", NoFs, st.trace, player, FALSE)
    /\ mode' = "quit"
    /\ UNCHANGED <<effect_idx, pot_idx, pot_values, status, status_ok, list_state>>

\* main: terminal.draw, event::poll or event::read returns Err and `?`
\* returns from main.  The App is dropped; dropping a Child does not kill it.
term_error ==
    /\ mode = "running"
    /\ mode' = "error"
    /\ player' = None
    /\ last' = Obs("term_error", NoFs, <<>>, player, FALSE)
    /\ UNCHANGED <<effect_idx, pot_idx, pot_values, status, status_ok, list_state, procs>>

-----------------------------------------------------------------------------
(* Specifications *)

NoRuns == UNCHANGED <<potObs, navObs>>

\* Spec: the event loop with the orchestrator.  The keys that only move the
\* pot cursor or change a pot value are exercised in SpecPot and SpecSel.
Next ==
    \/ next_effect /\ NoRuns
    \/ prev_effect /\ NoRuns
    \/ reset_pots /\ NoRuns
    \/ process_and_play /\ NoRuns
    \/ stop_key /\ NoRuns
    \/ quit_key /\ NoRuns
    \/ term_error /\ NoRuns

Spec == Init /\ [][Next]_vars

\* SpecPot: the parameter store under the selection keys, increase,
\* decrease and reset.  One pot at a time is taken away from its default:
\* increase and decrease are applied while every pot other than the selected
\* one holds its default, so each of the 24 pots walks its whole range.
CurPot == pot_values[effect_idx][pot_idx]

OthersAtDefault ==
    \A e \in DOMAIN EFFECTS : \A i \in 0..(NumPots - 1) :
        (e # effect_idx \/ i # pot_idx) => pot_values[e][i] = DefaultPots[e][i]

PotIdle == potObs' = [from |-> -1, run |-> -1]

NextPot ==
    \/ next_effect /\ PotIdle /\ UNCHANGED navObs
    \/ prev_effect /\ PotIdle /\ UNCHANGED navObs
    \/ next_pot /\ PotIdle /\ UNCHANGED navObs
    \/ /\ OthersAtDefault
       /\ increase_pot
       /\ potObs' = [from |-> CurPot,
                     run |-> IF CurPot = 0 THEN 1
                             ELSE IF potObs.run \in 1..19 THEN potObs.run + 1
                             ELSE -1]
       /\ UNCHANGED navObs
    \/ /\ OthersAtDefault
       /\ decrease_pot
       /\ potObs' = [from |-> CurPot, run |-> -1]
       /\ UNCHANGED navObs
    \/ reset_pots /\ potObs' = [from |-> CurPot, run |-> -1] /\ UNCHANGED navObs

SpecPot == Init /\ [][NextPot]_vars

\* SpecSel: the selection keys alone, with the run of next_effect calls observed.
NextSel ==
    \/ /\ next_effect
       /\ navObs' = IF navObs.n \in 1..(EffectsLen - 1)
                    THEN [from |-> effect_idx, origin |-> navObs.origin, n |-> navObs.n + 1,
                          cursor |-> pot_idx]
                    ELSE [from |-> effect_idx, origin |-> effect_idx, n |-> 1,
                          cursor |-> pot_idx]
       /\ UNCHANGED potObs
    \/ /\ prev_effect
       /\ navObs' = [from |-> effect_idx, origin |-> -1, n |-> 0, cursor |-> pot_idx]
       /\ UNCHANGED potObs
    \/ /\ next_pot
       /\ navObs' = [from |-> effect_idx, origin |-> -1, n |-> 0, cursor |-> pot_idx]
       /\ UNCHANGED potObs

SpecSel == Init /\ [][NextSel]_vars

\* SpecFmt: process_and_play on changed pot values.  The first pot of each
\* effect is walked through its range with next_effect, increase_pot and
\* decrease_pot; then process_and_play is called where the program and
\* input.raw lie side by side in one of the two directories.
FsReady ==
    {f \in FsStates : /\ ~f.mp3P /\ ~f.mp3C
                       /\ f.convP = f.rawP /\ f.convC = f.rawC /\ f.convP # f.convC}

BeforePlay == last.cmd # "process_and_play"

NextFmt ==
    \/ BeforePlay /\ next_effect /\ NoRuns
    \/ BeforePlay /\ OthersAtDefault /\ increase_pot /\ NoRuns
    \/ BeforePlay /\ OthersAtDefault /\ decrease_pot /\ NoRuns
    \/ process_and_play_in(FsReady) /\ NoRuns

SpecFmt == Init /\ [][NextFmt]_vars

\* SpecStep: process_and_play taken in two steps, the store of the
\* 'Processing' status and the rest of the call.  Keys are read and the
\* screen is drawn at the top of the loop only (mode = "running"); while the
\* call is under way (mode = "processing") nothing else runs.
NextStep ==
    \/ next_effect /\ NoRuns
    \/ pp_begin /\ NoRuns
    \/ pp_end /\ NoRuns
    \/ stop_key /\ NoRuns
    \/ quit_key /\ NoRuns
    \/ term_error /\ NoRuns

SpecStep == Init /\ [][NextStep]_vars

\* SpecMix: all nine keys together.  A pot is raised one step from the
\* defaults and lowered again, and process_and_play is called where input.raw
\* is absent and the other files lie in the parent directory or are missing,
\* which leads to each of its exits.
FsMix ==
    {f \in FsStates : /\ ~f.convC /\ ~f.rawC /\ ~f.mp3C
                       /\ ~f.rawP /\ (f.convP \/ f.mp3P)}

NextMix ==
    \/ next_effect /\ NoRuns
    \/ prev_effect /\ NoRuns
    \/ next_pot /\ NoRuns
    \/ pot_values = DefaultPots /\ increase_pot /\ NoRuns
    \/ OthersAtDefault /\ CurPot > DefaultPots[effect_idx][pot_idx] /\ decrease_pot /\ NoRuns
    \/ reset_pots /\ NoRuns
    \/ process_and_play_in(FsMix) /\ NoRuns
    \/ stop_key /\ NoRuns
    \/ quit_key /\ NoRuns

SpecMix == Init /\ [][NextMix]_vars

-----------------------------------------------------------------------------
(* Claims about the playback handle (checked under Spec) *)

Running == {p \in DOMAIN procs : procs[p] = "running"}

\* The last ffplay spawn attempt of trace tr, and the kill request right before it.
LastEv(tr) == tr[Len(tr)]
KillBeforeSpawn(tr, pid) ==
    /\ Len(tr) >= 2
    /\ tr[Len(tr)].tool = "ffplay"
    /\ tr[Len(tr) - 1].tool = "kill"
    /\ tr[Len(tr) - 1].arg = <<pid>>

\* C1: in every state reached by keyboard commands alone (no terminal error),
\* at most one spawned playback process has not been asked to terminate, that
\* process is the tracked one, and a process_and_play that spawned a player
\* while a handle was tracked issued the kill request on it before the spawn.
C1_AtMostOneLive ==
    mode # "error" =>
        /\ Cardinality(Running) <= 1
        /\ \A p \in Running : player = p
        /\ (PlayedOk(last) /\ last.before # None) =>
               /\ KillBeforeSpawn(last.trace, last.before)
               /\ procs[last.before] = "killed"

C1_Witness ==
    /\ mode = "running"
    /\ Len(procs) = 2
    /\ procs[1] = "killed"
    /\ procs[2] = "running"
    /\ player = 2
    /\ PlayedOk(last)
    /\ last.before = 1

\* C2 as stated: after two process_and_play in succession whose conversions
\* both exited 0, exactly one handle is tracked and the first handle was
\* killed before the second spawn.
C2_Original ==
    (PlayedOk(last) /\ last.again) =>
        /\ player # None
        /\ (last.before # None => KillBeforeSpawn(last.trace, last.before))

\* C2 amended: after two process_and_play in succession whose conversions
\* both exited 0, the tracked handle is the child spawned by the second call
\* when its ffplay launch succeeded and none when the launch failed; a handle
\* left by the first call has been sent its kill request before the second
\* spawn attempt and is no longer tracked.
C2_Amended ==
    (PlayedOk(last) /\ last.again) =>
        /\ LastEv(last.trace).tool = "ffplay"
        /\ (LastEv(last.trace).res = "ok" =>
                /\ player = Len(procs)
                /\ procs[player] = "running"
                /\ player # last.before)
        /\ (LastEv(last.trace).res # "ok" => player = None)
        /\ Running \subseteq {player}
        /\ (last.before # None =>
                /\ KillBeforeSpawn(last.trace, last.before)
                /\ procs[last.before] = "killed")

C2_Witness ==
    /\ PlayedOk(last)
    /\ last.again
    /\ last.before = 1
    /\ player = 2
    /\ procs = <<"killed", "running">>

\* C3: after a process_and_play whose conversion exited non-zero or failed to
\* launch, status_ok is false, the tracked handle is the one tracked before
\* the call and still running, and neither a kill request nor an ffplay spawn
\* was issued.
C3_ConvertFailureKeepsHandle ==
    ConvertFailed(last) =>
        /\ ~status_ok
        /\ player = last.before
        /\ (player # None => procs[player] = "running")
        /\ ~Ran(last.trace, "kill")
        /\ ~Ran(last.trace, "ffplay")

C3_Witness ==
    /\ ConvertFailed(last)
    /\ HasEv(last.trace, "convert", "nonzero")
    /\ last.before = 1
    /\ player = 1
    /\ procs = <<"running">>
    /\ ~status_ok

\* C4 as stated: when the executable is in neither location, process_and_play
\* ends with the 'convert not found' status, ok = false, and nothing spawned.
C4_Claim ==
    (last.cmd = "process_and_play" /\ ~last.fs.convP /\ ~last.fs.convC) =>
        /\ status = Msg("Error: 'convert' not found - run 'make convert'")
        /\ ~status_ok
        /\ last.trace = <<>>

\* C5 as stated: whenever a handle stops being tracked or main has returned,
\* a kill request was issued on the process first.
C5_Claim ==
    /\ \A p \in DOMAIN procs : p # player => procs[p] = "killed"
    /\ mode # "running" => Running = {}

\* C6: stop_audio is idempotent.  The 'q' key runs stop_audio and nothing
\* else on the App: with no handle it leaves handle, processes, status, ok
\* flag, selection and parameters as they were; with a handle it issues one
\* kill request and clears the handle whatever the request returned, leaving
\* the rest alone.  The 's' key clears the handle the same way, and a stop or
\* quit right after a stop changes nothing of the App and kills nothing.
C6_StopIdempotent ==
    [][ /\ (last'.cmd \in {"stop", "quit"}) =>
              /\ player' = None
              /\ <<effect_idx, pot_idx, list_state, pot_values>>' =
                    <<effect_idx, pot_idx, list_state, pot_values>>
              /\ (player = None => procs' = procs /\ last'.trace = <<>>)
              /\ (player # None =>
                      /\ procs' = [procs EXCEPT ![player] = "killed"]
                      /\ Len(last'.trace) = 1
                      /\ last'.trace[1].tool = "kill"
                      /\ last'.trace[1].arg = <<player>>)
        /\ (last'.cmd = "quit") => (status' = status /\ status_ok' = status_ok)
        /\ (last'.cmd \in {"stop", "quit"} /\ last.cmd = "stop") =>
              /\ appVars' = appVars
              /\ procs' = procs
              /\ last'.trace = <<>>
      ]_vars

C6_Witness ==
    /\ last.cmd = "quit"
    /\ last.before = 1
    /\ HasEv(last.trace, "kill", "err")
    /\ player = None
    /\ procs = <<"killed">>

-----------------------------------------------------------------------------
(* Claims about the parameter store (checked under SpecPot) *)

\* C7: every pot of every effect holds a value in [0.0, 1.0].
C7_PotsInRange ==
    \A e \in DOMAIN EFFECTS : \A i \in 0..(NumPots - 1) :
        pot_values[e][i] >= 0 /\ pot_values[e][i] <= One

\* An increase whose f32 sum went past 1.0 and was cut back to it.
C7_Witness ==
    /\ last.cmd = "increase_pot"
    /\ potObs.from < One
    /\ F32Round(potObs.from + Step) > One
    /\ CurPot = One

\* C8: 20 consecutive increase_pot calls on a pot that held 0.0 leave exactly
\* 1.0; an increase at 1.0 leaves 1.0; a decrease at 0.0 leaves 0.0.
C8_Saturation ==
    /\ potObs.run = 20 => CurPot = One
    /\ (last.cmd = "increase_pot" /\ potObs.from = One) => CurPot = One
    /\ (last.cmd = "decrease_pot" /\ potObs.from = 0) => CurPot = 0

C8_Witness ==
    /\ potObs.run = 20
    /\ last.cmd = "increase_pot"
    /\ CurPot = One

\* C9: reset_pots makes the vector of the selected effect equal to the
\* catalog defaults of that effect and leaves the vectors of all other
\* effects, the effect index and the pot cursor unchanged.
C9_ResetToDefaults ==
    [][ (last'.cmd = "reset_pots") =>
            /\ pot_values'[effect_idx] = EFFECTS[effect_idx].defaults
            /\ \A e \in DOMAIN EFFECTS : e # effect_idx => pot_values'[e] = pot_values[e]
            /\ effect_idx' = effect_idx
            /\ pot_idx' = pot_idx
      ]_vars

\* A reset of one effect while a pot of another effect is away from its default.
C9_Witness ==
    /\ last.cmd = "reset_pots"
    /\ pot_values[effect_idx] = EFFECTS[effect_idx].defaults
    /\ \E e \in DOMAIN EFFECTS : e # effect_idx /\ pot_values[e] # EFFECTS[e].defaults

-----------------------------------------------------------------------------
(* Claims about the selection (checked under SpecSel) *)

\* C10: the catalog has 6 entries; EffectsLen next_effect calls in a row
\* bring the effect index back to where it started; next_effect computes
\* (i + 1) mod 6, prev_effect computes (i - 1 + 6) mod 6, and prev_effect
\* from 0 gives 5.
C10_CyclicNavigation ==
    /\ EffectsLen = 6
    /\ navObs.n = EffectsLen => effect_idx = navObs.origin
    /\ last.cmd = "next_effect" => effect_idx = (navObs.from + 1) % 6
    /\ last.cmd = "prev_effect" => effect_idx = (navObs.from - 1 + 6) % 6
    /\ (last.cmd = "prev_effect" /\ navObs.from = 0) => effect_idx = 5

C10_Witness ==
    /\ navObs.n = EffectsLen
    /\ navObs.origin = 3
    /\ effect_idx = 3
    /\ last.cmd = "next_effect"

-----------------------------------------------------------------------------
(* Claims about the selection (continued) *)

\* C11: every next_effect and prev_effect step, from any pot cursor, leaves
\* the cursor at 0; every next_pot step moves the cursor to (cursor + 1) mod 4
\* and leaves the effect index as it was.
C11_CursorOnSelection ==
    [][/\ last'.cmd \in {"next_effect", "prev_effect"} =>
            /\ pot_idx \in 0..3
            /\ pot_idx' = 0
       /\ last'.cmd = "next_pot" =>
            /\ pot_idx' = (pot_idx + 1) % 4
            /\ effect_idx' = effect_idx
            /\ list_state' = list_state]_vars

\* prev_effect pressed with the cursor on the last pot.
C11_Witness ==
    /\ last.cmd = "prev_effect"
    /\ navObs.cursor = 3
    /\ navObs.from = 2
    /\ effect_idx = 1
    /\ pot_idx = 0

\* C12: in every reachable state the effect index is a catalog index and the
\* pot cursor is one of 0..3, so EFFECTS[effect_idx], pot_values[effect_idx],
\* pot_values[effect_idx][pot_idx] and the four pots read by ui are all defined.
C12_IndicesInRange ==
    /\ effect_idx \in 0..(EffectsLen - 1)
    /\ pot_idx \in 0..(NumPots - 1)
    /\ effect_idx \in DOMAIN EFFECTS
    /\ effect_idx \in DOMAIN pot_values
    /\ pot_idx \in DOMAIN pot_values[effect_idx]
    /\ \A i \in 0..3 : i \in DOMAIN pot_values[effect_idx] /\ i \in DOMAIN EFFECTS[effect_idx].defaults

\* The last pot of the last effect written after prev_effect wrapped from 0.
C12_Witness ==
    /\ effect_idx = EffectsLen - 1
    /\ pot_idx = NumPots - 1
    /\ last.cmd = "increase_pot"
    /\ pot_values[5][3] > DefaultPots[5][3]

-----------------------------------------------------------------------------
(* Claims about process_and_play (continued) *)

\* The event of tool in trace tr (there is at most one per call).
EvOf(tr, tool) == tr[CHOOSE i \in DOMAIN tr : tr[i].tool = tool]

\* h hundredths is a decimal value nearest to v: |v - h/100| <= 1/200, with
\* v in units of 2^-28 (2^28 / 200 = 1342177.28).
NearestHundredth(v, h) ==
    /\ v >= (2 * h - 1) * 1342177 + (((2 * h - 1) * 28 + 99) \div 100)
    /\ v <= (2 * h + 1) * 1342177 + (((2 * h + 1) * 28) \div 100)

\* C13: after a process_and_play whose conversion exited 0, convert was run
\* with the selected effect's name and its four pot values, each given as the
\* nearest value with two decimals; the status is the 'Playing' message with
\* the same name and the same four values, and ok is true.  For echo at its
\* defaults the arguments are echo 0.30 0.30 0.30 0.30.
C13_ConvertInvocation ==
    PlayedOk(last) =>
        LET c == EvOf(last.trace, "convert")
            pots == pot_values[effect_idx]
        IN  /\ Len(c.arg) = 6
            /\ c.arg[1] \in {"../convert", "./convert"}
            /\ c.arg[2] = EFFECTS[effect_idx].name
            /\ \A i \in 0..3 : /\ c.arg[i + 3] \in 0..100
                                /\ NearestHundredth(pots[i], c.arg[i + 3])
            /\ status.text = "Playing: {} [{:.2}, {:.2}, {:.2}, {:.2}]"
            /\ status.eff = c.arg[2]
            /\ status.vals = <<c.arg[3], c.arg[4], c.arg[5], c.arg[6]>>
            /\ status_ok
            /\ (effect_idx = 1 /\ pots = EFFECTS[1].defaults) =>
                   /\ c.arg[2] = "echo"
                   /\ status.vals = <<30, 30, 30, 30>>

\* fm played after its first pot was lowered twice from 0.25: 0.15 0.25 0.50 0.50.
C13_Witness ==
    /\ PlayedOk(last)
    /\ effect_idx = 2
    /\ pot_values[2][0] < DefaultPots[2][0]
    /\ status.eff = "fm"
    /\ status.vals = <<15, 25, 50, 50>>
    /\ status_ok

\* C14: after a process_and_play whose conversion exited 0 and whose ffplay
\* could not be launched, the status is the 'Playing' message with ok = true,
\* the handle tracked before the call got its kill request before the spawn
\* attempt, no handle is tracked and no child is running.
C14_LaunchFailure ==
    (PlayedOk(last) /\ HasEv(last.trace, "ffplay", "launchfail")) =>
        /\ status = PlayingMsg(effect_idx, pot_values[effect_idx])
        /\ status_ok
        /\ player = None
        /\ Running = {}
        /\ last.before # None =>
              /\ procs[last.before] = "killed"
              /\ KillBeforeSpawn(last.trace, last.before)
        /\ last.before = None => ~Ran(last.trace, "kill")

\* A playing child was tracked when the launch failed.
C14_Witness ==
    /\ PlayedOk(last)
    /\ HasEv(last.trace, "ffplay", "launchfail")
    /\ last.before = 1
    /\ procs = <<"killed">>
    /\ player = None
    /\ status_ok

\* The statuses of the failing exits of process_and_play.
FailureTexts ==
    {"Error: No input.raw or .mp3 file found",
     "Error: Failed to convert MP3",
     "Error: 'convert' not found - run 'make convert'",
     "Error opening input: {}",
     "Error creating output: {}",
     "Error: Processing failed"}

\* No tool is run and no file is opened twice in trace tr.
NoRetry(tr) == \A i, j \in DOMAIN tr : tr[i].tool = tr[j].tool => i = j

\* C15: after a process_and_play that failed (input missing, transcode
\* failed, executable missing, file open or create failed, conversion failed)
\* the status is one of the failure messages with ok = false, nothing was
\* tried twice, the loop is still running, and every key handler, another
\* process_and_play included, can be dispatched.
C15_FailureNotFatal ==
    (last.cmd = "process_and_play" /\ ~PlayedOk(last)) =>
        /\ status.text \in FailureTexts
        /\ ~status_ok
        /\ NoRetry(last.trace)
        /\ ~Ran(last.trace, "ffplay")
        /\ mode = "running"
        /\ ENABLED next_effect
        /\ ENABLED prev_effect
        /\ ENABLED next_pot
        /\ ENABLED increase_pot
        /\ ENABLED decrease_pot
        /\ ENABLED reset_pots
        /\ ENABLED process_and_play
        /\ ENABLED stop_key
        /\ ENABLED quit_key

\* A failed transcode while a child is playing, right after a successful call.
C15_Witness ==
    /\ last.cmd = "process_and_play"
    /\ HasEv(last.trace, "ffmpeg", "nonzero")
    /\ status = Msg("Error: Failed to convert MP3")
    /\ ~status_ok
    /\ last.again
    /\ player = 1
    /\ mode = "running"

\* C16 as stated: whenever input.raw exists in one of the two directories,
\* process_and_play uses it and does not run the transcoder, wherever the
\* executable was found.
C16_Claim ==
    (last.cmd = "process_and_play" /\ (last.fs.rawP \/ last.fs.rawC)) =>
        /\ ~Ran(last.trace, "ffmpeg")
        /\ status.text # "Error: No input.raw or .mp3 file found"
        /\ Ran(last.trace, "open") =>
              EvOf(last.trace, "open").arg =
                  <<IF last.fs.rawP THEN "../input.raw" ELSE "./input.raw">>

\* The place of each external step in the call.
StepRank(tool) ==
    IF tool = "ffmpeg" THEN 1
    ELSE IF tool = "open" THEN 2
    ELSE IF tool = "create" THEN 3
    ELSE IF tool = "convert" THEN 4
    ELSE IF tool = "kill" THEN 5
    ELSE 6

\* C17: within one process_and_play the steps come in the order ffmpeg,
\* open, create, convert, ffplay.  ffmpeg is run only when input.raw is absent
\* at the path the call resolved and an mp3 was found; with no mp3, or with
\* ffmpeg exiting non-zero or failing to launch, ok is false and neither
\* convert nor ffplay is run; convert is run only after input.raw was opened
\* and output.raw created; ffplay only after convert exited 0.
C17_GatedSteps ==
    last.cmd = "process_and_play" =>
        LET tr == last.trace
            f == last.fs
            rawThere == IF f.convP THEN f.rawP ELSE f.rawC
            mp3There == f.mp3P \/ f.mp3C
        IN  /\ \A i, j \in DOMAIN tr : i < j => StepRank(tr[i].tool) < StepRank(tr[j].tool)
            /\ Ran(tr, "ffmpeg") => ~rawThere /\ mp3There
            /\ (~rawThere /\ ~mp3There) =>
                  ~status_ok /\ ~Ran(tr, "convert") /\ ~Ran(tr, "ffplay")
            /\ (HasEv(tr, "ffmpeg", "nonzero") \/ HasEv(tr, "ffmpeg", "launchfail")) =>
                  ~status_ok /\ ~Ran(tr, "convert") /\ ~Ran(tr, "ffplay")
            /\ Ran(tr, "convert") =>
                  /\ HasEv(tr, "open", "ok")
                  /\ HasEv(tr, "create", "ok")
                  /\ rawThere \/ HasEv(tr, "ffmpeg", "ok")
            /\ Ran(tr, "ffplay") => HasEv(tr, "convert", "ok")

\* All three tools were run in one call, with a kill request in between.
C17_Witness ==
    /\ last.cmd = "process_and_play"
    /\ Len(last.trace) = 6
    /\ last.trace[1].tool = "ffmpeg"
    /\ last.trace[4].tool = "convert"
    /\ last.trace[5].tool = "kill"
    /\ last.trace[6] = Ev("ffplay", <<"./output.raw">>, "ok")
    /\ player = 2

\* C18: while process_and_play is under way the only step taken is the rest
\* of that call, which ends at the top of the loop with the 'Playing' status
\* or one of the failure statuses; wherever a key can be dispatched or the
\* screen drawn (the top of the loop) the status is not the 'Processing' one.
C18_ProcessingNeverSeen ==
    /\ [](mode # "processing" => status.text # "Processing {}...")
    /\ [][/\ mode = "processing" =>
               /\ status.text = "Processing {}..."
               /\ last'.cmd = "process_and_play"
               /\ mode' = "running"
               /\ status'.text \in FailureTexts \cup {"Playing: {} [{:.2}, {:.2}, {:.2}, {:.2}]"}
               /\ status_ok' = (status'.text \notin FailureTexts)
          /\ last'.cmd = "process_and_play" => mode = "processing"]_vars

\* A call that stored 'Processing echo...' went on to a failed conversion
\* and is back at the top of the loop.
C18_Witness ==
    /\ last.cmd = "process_and_play"
    /\ mode = "running"
    /\ effect_idx = 1
    /\ HasEv(last.trace, "convert", "nonzero")
    /\ status = Msg("Error: Processing failed")
    /\ ~status_ok

-----------------------------------------------------------------------------
(* Frame claims (checked under SpecMix) *)

\* C19: App::new fills pot_values with the catalog defaults; a step changes
\* pot_values only if it is increase_pot, decrease_pot or reset_pots;
\* increase_pot and decrease_pot leave every component other than
\* (effect_idx, pot_idx) as it was; next_effect, prev_effect, next_pot,
\* process_and_play with any outcome, stop and quit leave pot_values as it was.
C19_StoreFrame ==
    /\ \A e \in DOMAIN EFFECTS : pot_values[e] = EFFECTS[e].defaults
    /\ [][/\ pot_values' # pot_values =>
               last'.cmd \in {"increase_pot", "decrease_pot", "reset_pots"}
          /\ last'.cmd \in {"increase_pot", "decrease_pot"} =>
               \A e \in DOMAIN EFFECTS : \A i \in 0..(NumPots - 1) :
                   (e # effect_idx \/ i # pot_idx) => pot_values'[e][i] = pot_values[e][i]
          /\ last'.cmd \in {"next_effect", "prev_effect", "next_pot",
                             "process_and_play", "stop", "quit"} =>
               pot_values' = pot_values]_vars

\* echo was played with its third pot raised to 0.35; the store still holds
\* that value and nothing else is changed.
C19_Witness ==
    /\ PlayedOk(last)
    /\ effect_idx = 1
    /\ pot_idx = 2
    /\ pot_values[1][2] > DefaultPots[1][2]
    /\ OthersAtDefault
    /\ status.vals = <<30, 30, 35, 30>>

SelectionAndPotKeys ==
    {"next_effect", "prev_effect", "next_pot", "increase_pot", "decrease_pot", "reset_pots"}

\* C20: a step changes the tracked handle only if it is a process_and_play
\* whose conversion exited 0, stop or quit; the six selection and pot keys and
\* every failing exit of process_and_play leave the handle and the children
\* as they were and issue no kill request; process_and_play and stop leave
\* the effect index and the pot cursor as they were.
C20_HandleFrame ==
    [][/\ player' # player => (PlayedOk(last') \/ last'.cmd \in {"stop", "quit"})
       /\ (\/ last'.cmd \in SelectionAndPotKeys
           \/ last'.cmd = "process_and_play" /\ ~PlayedOk(last')) =>
             /\ player' = player
             /\ procs' = procs
             /\ ~Ran(last'.trace, "kill")
             /\ ~Ran(last'.trace, "ffplay")
       /\ last'.cmd \in {"process_and_play", "stop"} =>
             /\ effect_idx' = effect_idx
             /\ pot_idx' = pot_idx
             /\ list_state' = list_state]_vars

\* The executable went missing while a child was playing: the call failed
\* and the child is still tracked and running, on the third pot of am.
C20_Witness ==
    /\ last.cmd = "process_and_play"
    /\ status = Msg("Error: 'convert' not found - run 'make convert'")
    /\ last.before = 1
    /\ player = 1
    /\ procs = <<"running">>
    /\ effect_idx = 3
    /\ pot_idx = 2
====
